---- MODULE Spec2Model ----
(***************************************************************************)
(* drupes: duplicate-file finder (src/src/main.rs, src/src/lib.rs).        *)
(*                                                                         *)
(* The model follows one invocation of main: the scan of the roots (pass   *)
(* one), the retain of the size groups, the prehash pass (pass two), the   *)
(* keyed full-hash pass (pass three), the optional paranoid verification,  *)
(* the summary or listing, and the optional deletion.                      *)
(*                                                                         *)
(* File contents are byte strings in run-length form: a sequence of runs   *)
(* <<byte, count>> with count >= 1 and adjacent runs of different bytes.   *)
(* Two byte strings are equal exactly when their run-length forms are.     *)
(* This keeps PREHASH_SIZE at its real value of 4096.                      *)
(*                                                                         *)
(* blake3 is taken to be collision-free: a hash value is represented by    *)
(* the tagged input it was computed from.                                  *)
(***************************************************************************)
EXTENDS Integers, Sequences, FiniteSets, TLC

\* ------------------------------------------------------------------ bounds

\* Number of regular files in the tree; path p is the p-th path in
\* lexicographic order ("top/a" < "top/sub/b" < "top/sub/c" < ...).
NumPaths == 3

\* Longest list of roots given on the command line.
MaxRoots == 2

\* Most file operations that fail in one run after the scan (open, read,
\* metadata, seek, remove_file).
MaxFaults == 1

\* Most (hash, path) pairs in the stream that fold and reduce collate, and
\* most maps fold produces from it, when the merge is studied on its own.
MaxPairs == 3
MaxWorkers == 3

\* Most reads of one file that return fewer bytes than they could, and most
\* that fail with ErrorKind::Interrupted, when the read loop is studied on
\* its own.
MaxShort == 2
MaxIntr == 2

\* const PREHASH_SIZE: usize = 4 * 1024;
PREHASH_SIZE == 4096

Paths == 1..NumPaths

\* ------------------------------------------------- byte strings (run-length)

RECURSIVE RLen(_)
\* slice.len()
RLen(r) == IF r = <<>> THEN 0 ELSE r[1][2] + RLen(Tail(r))

RECURSIVE RTake(_, _)
\* &s[..n]
RTake(r, n) ==
    IF n <= 0 \/ r = <<>> THEN <<>>
    ELSE IF r[1][2] <= n THEN <<r[1]>> \o RTake(Tail(r), n - r[1][2])
    ELSE << <<r[1][1], n>> >>

RECURSIVE RDrop(_, _)
\* &s[n..]
RDrop(r, n) ==
    IF n <= 0 \/ r = <<>> THEN r
    ELSE IF r[1][2] <= n THEN RDrop(Tail(r), n - r[1][2])
    ELSE << <<r[1][1], r[1][2] - n>> >> \o Tail(r)

\* concatenation of two byte strings, joining the runs that meet
RCat(a, b) ==
    IF a = <<>> THEN b
    ELSE IF b = <<>> THEN a
    ELSE IF a[Len(a)][1] = b[1][1]
         THEN SubSeq(a, 1, Len(a) - 1)
              \o << <<b[1][1], a[Len(a)][2] + b[1][2]>> >>
              \o Tail(b)
         ELSE a \o b

\* vec![0u8; PREHASH_SIZE]
ZeroBuf == << <<0, PREHASH_SIZE>> >>

\* f.read(&mut buf[total..]) returning Ok(n): n bytes of the file, from the
\* file position (= total), land in buf[total .. total + n]
WriteAt(b, total, file, n) ==
    RCat(RCat(RTake(b, total), RTake(RDrop(file, total), n)),
         RDrop(b, total + n))

\* ReadInto for f.read(&mut buf) in place of f.read(&mut buf[total..]): every
\* read lands at the start of the buffer
ReadIntoStart(b, total, file, pos, n) ==
    RCat(RTake(RDrop(file, pos), n), RDrop(b, n))

\* f.read(&mut buf[total..]) returning Ok(n) with the file position at pos:
\* the bytes file[pos .. pos + n] land in buf[total .. total + n]
ReadInto(b, total, file, pos, n) ==
    RCat(RCat(RTake(b, total), RTake(RDrop(file, pos), n)),
         RDrop(b, total + n))

Min2(a, b) == IF a <= b THEN a ELSE b

SetMin(S) == CHOOSE x \in S : \A y \in S : x <= y

\* ------------------------------------------------------------- the tree

\* The file contents the tree is built from: the empty file, "\0", "a",
\* 4096 x "a", 4097 x "a", and 4096 x "a" followed by "\0".
Contents ==
    { <<>>,
      << <<0, 1>> >>,
      << <<1, 1>> >>,
      << <<1, PREHASH_SIZE>> >>,
      << <<1, PREHASH_SIZE + 1>> >>,
      << <<1, PREHASH_SIZE>>, <<0, 1>> >> }

\* Directory layout: top/ holds path 1 and the directory top/sub/, which
\* holds every other path.  In a directory listing 0 stands for the
\* subdirectory.
SubFiles == {p \in Paths : p > 1}

FilesUnder(root) == IF root = "top" THEN Paths ELSE SubFiles

\* the orders in which a HashMap, or the file system, may yield the members
\* of S
Orders(S) ==
    {s \in [1..Cardinality(S) -> S] : \A i, j \in DOMAIN s : s[i] = s[j] => i = j}

\* The order in which read_dir yields the entries of each directory; the
\* tree does not change during the scan, and neither does this order.
Listings == [top : Orders({0, 1}), sub : Orders(SubFiles)]

DirEntry == [is_file |-> FALSE, path |-> 0]

FileEntry(p) == [is_file |-> TRUE, path |-> p]

\* for entry in WalkDir::new(root): a directory comes before its entries
\* and the entries of a subdirectory come together
WalkSub(l) == <<DirEntry>> \o [i \in 1..Len(l.sub) |-> FileEntry(l.sub[i])]

WalkTop(l) ==
    <<DirEntry>>
    \o (IF l.top[1] = 0 THEN WalkSub(l) \o <<FileEntry(l.top[2])>>
        ELSE <<FileEntry(l.top[1])>> \o WalkSub(l))

Walk(root, l) == IF root = "top" THEN WalkTop(l) ELSE WalkSub(l)

RECURSIVE SeqsUpTo(_, _)
SeqsUpTo(S, n) ==
    IF n = 0 THEN {<<>>}
    ELSE LET shorter == SeqsUpTo(S, n - 1)
         IN shorter \cup {Append(s, x) : s \in shorter, x \in S}

\* roots: Vec<PathBuf>, as given on the command line
RootLists == SeqsUpTo({"top", "sub"}, MaxRoots)

\* if args.roots.is_empty() { args.roots.push(".".into()) }  -- "." is top
DefaultRoots(given) == IF given = <<>> THEN <<"top">> ELSE given

\* struct Drupes: the flags
FlagNames == {"empty", "omit_first", "summarize", "paranoid", "delete"}

\* ------------------------------------------------------------------ maps

EmptyMap == [k \in {} |-> <<>>]

\* Fold with map.insert(hash, vec![path]) in place of the push: the group's
\* earlier members are lost
FoldInsert(map, k, p) == [x \in DOMAIN map \cup {k} |-> IF x = k THEN <<p>> ELSE map[x]]

\* map.entry(hash).or_default().push(path)
Fold(map, k, p) ==
    [x \in DOMAIN map \cup {k} |->
        IF x = k THEN (IF k \in DOMAIN map THEN Append(map[k], p) ELSE <<p>>)
        ELSE map[x]]

\* Reduce with a.extend(b) in place of the loop: for a key of both maps the
\* group of b replaces the group of a
ReduceOverwrite(a, b) ==
    [k \in DOMAIN a \cup DOMAIN b |-> IF k \in DOMAIN b THEN b[k] ELSE a[k]]

\* Reduce with or_insert(v) in place of or_default().extend(v): for a key of
\* both maps the group of b is dropped
ReduceKeep(a, b) ==
    [k \in DOMAIN a \cup DOMAIN b |-> IF k \in DOMAIN a THEN a[k] ELSE b[k]]

\* for (k, v) in b { a.entry(k).or_default().extend(v) }
Reduce(a, b) ==
    [k \in DOMAIN a \cup DOMAIN b |->
        (IF k \in DOMAIN a THEN a[k] ELSE <<>>)
        \o (IF k \in DOMAIN b THEN b[k] ELSE <<>>)]

\* paths.retain(|_size, paths| paths.len() > 1)
Retain(m) == [k \in {x \in DOMAIN m : Len(m[x]) > 1} |-> m[k]]

\* the keys of the groups with more than one member
DupKeys(m) == {k \in DOMAIN m : Len(m[k]) > 1}

RECURSIVE FlattenAsc(_, _)
\* paths.par_iter().flat_map(|(_size, paths)| paths): BTreeMap order
FlattenAsc(m, keys) ==
    IF keys = {} THEN <<>>
    ELSE LET k == SetMin(keys)
         IN [i \in 1..Len(m[k]) |-> [key |-> k, path |-> m[k][i]]]
            \o FlattenAsc(m, keys \ {k})

RECURSIVE ByFirstPath(_, _, _)
\* the keys S of m, ordered by the first position of the work list that
\* holds the first path of each
ByFirstPath(m, S, work) ==
    IF S = {} THEN <<>>
    ELSE LET pos(k) == CHOOSE i \in 1..Len(work) : work[i].path = m[k][1]
                                 /\ \A j \in 1..(i - 1) : work[j].path # m[k][1]
             k0 == CHOOSE k \in S : \A x \in S : pos(k) <= pos(x)
         IN <<k0>> \o ByFirstPath(m, S \ {k0}, work)

RECURSIVE FlattenOrd(_, _)
\* .flat_map(|(hash, paths)| paths.into_par_iter().map(move |p| (hash, p)))
FlattenOrd(m, ord) ==
    IF ord = <<>> THEN <<>>
    ELSE [i \in 1..Len(m[Head(ord)]) |-> [key |-> Head(ord), path |-> m[Head(ord)][i]]]
         \o FlattenOrd(m, Tail(ord))

\* ---------------------------------------------------------------- hashing

\* blake3::hash(buf)
Hash(b) == <<"blake3", b>>

\* blake3::Hasher::new_keyed(prehash.as_bytes()) ... update_reader ... finalize()
KeyedHash(key, data) == <<"keyed", key, data>>

\* The results successive calls of f.read may give: one byte, as many bytes
\* as fit, ErrorKind::Interrupted, or another error.  After the script the
\* reads return as many bytes as fit.
ReadScripts == {<<>>, <<"one">>, <<"intr">>, <<"err">>, <<"one", "err">>}

RECURSIVE ReadLoop(_, _, _, _)
\* let mut total = 0; while total < buf.len() { match f.read(&mut buf[total..]) ... }
ReadLoop(b, total, file, script) ==
    IF total >= RLen(b) THEN [ok |-> TRUE, buf |-> b, total |-> total]
    ELSE LET ev   == IF script = <<>> THEN "all" ELSE Head(script)
             rest == IF script = <<>> THEN <<>> ELSE Tail(script)
             left == RLen(file) - total
         IN IF ev = "err" THEN [ok |-> FALSE, buf |-> b, total |-> total]
            ELSE IF ev = "intr" THEN ReadLoop(b, total, file, rest)
            ELSE IF left <= 0 THEN [ok |-> TRUE, buf |-> b, total |-> total]
            ELSE LET n == IF ev = "one" THEN 1 ELSE Min2(left, RLen(b) - total)
                 IN ReadLoop(WriteAt(b, total, file, n), total + n, file, rest)

\* the closure of map_with in pass two: open, read loop, hash of the buffer
Prehash(b, file, open, script) ==
    IF ~open THEN [ok |-> FALSE, buf |-> b]
    ELSE LET r == ReadLoop(b, 0, file, script)
         IN IF r.ok THEN [ok |-> TRUE, buf |-> r.buf, hash |-> Hash(r.buf)]
            ELSE [ok |-> FALSE, buf |-> r.buf]

\* TailOf with >= in place of >, seeking one byte too far: the tail starts
\* at offset PREHASH_SIZE + 1
TailOfLate(file) ==
    IF RLen(file) >= PREHASH_SIZE THEN RDrop(file, PREHASH_SIZE + 1) ELSE <<>>

\* TailOf without the seek: update_reader starts at offset 0
TailOfWhole(file) == IF RLen(file) > PREHASH_SIZE THEN file ELSE <<>>

\* if f.metadata()?.len() > PREHASH_SIZE as u64 { seek; update_reader }
TailOf(file) == IF RLen(file) > PREHASH_SIZE THEN RDrop(file, PREHASH_SIZE) ELSE <<>>

\* the closure of map in pass three
FullHash(prehash, file) == KeyedHash(prehash, TailOf(file))

\* ------------------------------------------------------------------ state

VARIABLES
    disk,           \* content of every path of the tree
    removed,        \* paths removed by std::fs::remove_file
    args,           \* the flags of struct Drupes
    unread,         \* the flags main has not read yet
    roots,          \* args.roots
    pc,             \* where main is
    walk,           \* pass one: the WalkDir iterator (root, position, the order
                    \* of the entries of each directory), gone after the scan
    paths,          \* paths: BTreeMap<u64, Vec<PathBuf>>
    items,          \* the flattened work list of the running pass
    next,           \* position of the next item
    buf,            \* the read buffer of the running rayon job
    part,           \* the map folded by the running rayon job
    acc,            \* the maps reduced so far
    prehash_files,  \* hashed_files after pass two
    hashed_files,   \* hashed_files after pass three
    order,          \* iteration order of hashed_files over its duplicate sets
    out,            \* lines printed to stdout
    err,            \* diagnostics printed to stderr
    exit,           \* "running", "ok", or the error main returned
    faults,         \* file operations that have failed since the scan
    tampered,       \* another process has written to a file of the tree
    pool,           \* the maps of the rayon jobs that wait for reduce
    total,          \* let mut total = 0 of the read loop
    results         \* what each f.read of the read loop has returned

vars == <<disk, removed, args, unread, roots, pc, walk, paths, items, next, buf, part,
          acc, prehash_files, hashed_files, order, out, err, exit, faults, tampered,
          pool, total, results>>

\* The flags are inputs of the run, and no step reads a flag before the step
\* it steers.  A flag is drawn when main first reads it and keeps that value:
\* the runs are those of a command line fixed before the scan.
FlagIs(f, v) == f \in unread \/ args[f] = v

ReadFlag(f, v) == [args EXCEPT ![f] = v]

Init ==
    /\ disk \in [Paths -> Contents]
    /\ removed = {}
    /\ args = [f \in FlagNames |-> FALSE]
    /\ unread = FlagNames
    /\ \E given \in RootLists : roots = DefaultRoots(given)
    /\ pc = "scan"
    /\ \E l \in Listings : walk = [r |-> 1, i |-> 0, listing |-> l]
    /\ paths = EmptyMap
    /\ items = <<>>
    /\ next = 1
    /\ buf = ZeroBuf
    /\ part = EmptyMap
    /\ acc = EmptyMap
    /\ prehash_files = EmptyMap
    /\ hashed_files = EmptyMap
    /\ order = <<>>
    /\ out = <<>>
    /\ err = {}
    /\ exit = "running"
    /\ faults = 0
    /\ tampered = FALSE
    /\ pool = <<>>
    /\ total = 0
    /\ results = <<>>


\* --------------------------------------------------------------- pass one

\* the entry the walk yields next
Entry == Walk(roots[walk.r], walk.listing)[walk.i + 1]

\* the walk after that entry: the next root when this one is exhausted
NoWalk == [r |-> 0, i |-> 0, listing |-> <<>>]

Advance ==
    IF walk.i + 1 < Len(Walk(roots[walk.r], walk.listing)) THEN [walk EXCEPT !.i = @ + 1]
    ELSE IF walk.r < Len(roots) THEN [walk EXCEPT !.r = @ + 1, !.i = 0]
    ELSE NoWalk

WalkDone(w) == w = NoWalk

\* ScanFail that reports the entry and goes on with the walk, as the two
\* hashing passes do with a file they cannot read
ScanFailSkip ==
    /\ pc = "scan"
    /\ err' = err \cup {<<"scan", walk.r>>}
    /\ walk' = Advance
    /\ pc' = IF WalkDone(walk') THEN "retain" ELSE "scan"
    /\ UNCHANGED <<disk, removed, args, unread, roots, paths, items, next, buf,
                   part, acc, prehash_files, hashed_files, order, out, exit,
                   faults, tampered,
                   pool, total, results>>

\* let entry = entry?;  let meta = entry.metadata()?;
ScanFail ==
    /\ pc = "scan"
    /\ pc' = "failed"
    /\ exit' = "scan_failure"
    /\ err' = err \cup {<<"scan", walk.r>>}
    /\ UNCHANGED <<disk, removed, args, unread, roots, walk, paths, items,
                   next, buf, part, acc, prehash_files, hashed_files, order, out,
                   faults, tampered,
                   pool, total, results>>

\* an entry with !meta.is_file()
ScanDir ==
    /\ pc = "scan"
    /\ ~Entry.is_file
    /\ walk' = Advance
    /\ pc' = IF WalkDone(walk') THEN "retain" ELSE "scan"
    /\ UNCHANGED <<disk, removed, args, unread, roots, paths, items, next,
                   buf, part, acc, prehash_files, hashed_files, order, out, err,
                   exit, faults, tampered,
                   pool, total, results>>

\* ScanFile without the test of the length: every regular file is admitted
ScanFileAny ==
    /\ pc = "scan"
    /\ Entry.is_file
    /\ \E empty \in BOOLEAN :
        LET p     == Entry.path
            len   == RLen(disk[p])
            reads == len = 0
        IN /\ IF reads THEN FlagIs("empty", empty) ELSE empty = FALSE
           /\ args' = IF reads THEN ReadFlag("empty", empty) ELSE args
           /\ unread' = IF reads THEN unread \ {"empty"} ELSE unread
           /\ paths' = Fold(paths, len, p)
    /\ walk' = Advance
    /\ pc' = IF WalkDone(walk') THEN "retain" ELSE "scan"
    /\ UNCHANGED <<disk, removed, roots, items, next, buf, part, acc,
                   prehash_files, hashed_files, order, out, err, exit, faults, tampered,
                   pool, total, results>>

\* if meta.is_file() && (meta.len() > 0 || args.empty) { paths.entry(..).push(..) }
ScanFile ==
    /\ pc = "scan"
    /\ Entry.is_file
    /\ \E empty \in BOOLEAN :
        LET p     == Entry.path
            len   == RLen(disk[p])
            reads == len = 0
        IN /\ IF reads THEN FlagIs("empty", empty) ELSE empty = FALSE
           /\ args' = IF reads THEN ReadFlag("empty", empty) ELSE args
           /\ unread' = IF reads THEN unread \ {"empty"} ELSE unread
           /\ paths' = IF len > 0 \/ empty THEN Fold(paths, len, p) ELSE paths
    /\ walk' = Advance
    /\ pc' = IF WalkDone(walk') THEN "retain" ELSE "scan"
    /\ UNCHANGED <<disk, removed, roots, items, next, buf, part, acc,
                   prehash_files, hashed_files, order, out, err, exit, faults, tampered,
                   pool, total, results>>

\* paths.retain(...), then the flattened work list of pass two
RetainGroups ==
    /\ pc = "retain"
    /\ paths' = Retain(paths)
    /\ items' = FlattenAsc(paths', DOMAIN paths')
    /\ next' = 1
    /\ buf' = ZeroBuf
    /\ part' = EmptyMap
    /\ acc' = EmptyMap
    /\ pc' = "pass2"
    /\ UNCHANGED <<disk, removed, args, unread, roots, walk, prehash_files,
                   hashed_files, order, out, err, exit, faults, tampered,
                   pool, total, results>>

\* --------------------------------------------------------------- pass two

\* flat_map drives the paths of each size group with a consumer of its own
\* (split_off_left), and map_with clones the buffer for every consumer: a
\* rayon job is a run of neighbouring items of one group, and a buffer does
\* not outlive its job.
LastOfGroup(i) == i = Len(items) \/ items[i + 1].key # items[i].key

\* One path through map_with, filter_map and fold; when the job ends here,
\* its map is reduced into the result.
PrehashFile ==
    /\ pc = "pass2"
    /\ next <= Len(items)
    /\ \E open \in BOOLEAN, script \in ReadScripts, split \in BOOLEAN :
        LET p  == items[next].path
            r  == Prehash(buf, disk[p], open, script)
            m  == IF r.ok THEN Fold(part, r.hash, p) ELSE part
        IN /\ LastOfGroup(next) => split
           /\ ~open => script = <<>>
           /\ ~r.ok => faults < MaxFaults
           /\ faults' = IF r.ok THEN faults ELSE faults + 1
           /\ err' = IF r.ok THEN err ELSE err \cup {<<"prehash", p>>}
           /\ IF split
              THEN acc' = Reduce(acc, m) /\ part' = EmptyMap /\ buf' = ZeroBuf
              ELSE acc' = acc /\ part' = m /\ buf' = r.buf
    /\ next' = next + 1
    /\ UNCHANGED <<disk, removed, args, unread, roots, pc, walk, paths, items,
                   prehash_files, hashed_files, order, out, exit, tampered,
                   pool, total, results>>

\* The end of reduce; then filter and flat_map of pass three.  The pairs of
\* two prehash groups never meet under one key of pass three (the key holds
\* the prehash), so the order in which the HashMap yields the groups does
\* not show in the result; the work list takes them by their first path.
FinishPassTwo ==
    /\ pc = "pass2"
    /\ next > Len(items)
    /\ prehash_files' = acc
    /\ items' = FlattenOrd(acc, ByFirstPath(acc, DupKeys(acc), items))
    /\ next' = 1
    /\ part' = EmptyMap
    /\ acc' = EmptyMap
    /\ pc' = "pass3"
    /\ UNCHANGED <<disk, removed, args, unread, roots, walk, paths, buf,
                   hashed_files, order, out, err, exit, faults, tampered,
                   pool, total, results>>

\* -------------------------------------------------------------- pass three

\* One (prehash, path) pair through map, filter_map and fold.  seek and
\* update_reader run only for a file longer than PREHASH_SIZE.  Nothing is
\* shared between the items here: a job is taken to be one prehash group.
FullHashFile ==
    /\ pc = "pass3"
    /\ next <= Len(items)
    /\ \E io \in {"ok", "open", "metadata", "seek", "read"} :
        LET p == items[next].path
            m == IF io = "ok" THEN Fold(part, FullHash(items[next].key, disk[p]), p)
                 ELSE part
            split == LastOfGroup(next)
        IN /\ io \in {"seek", "read"} => RLen(disk[p]) > PREHASH_SIZE
           /\ io # "ok" => faults < MaxFaults
           /\ faults' = IF io = "ok" THEN faults ELSE faults + 1
           /\ err' = IF io = "ok" THEN err ELSE err \cup {<<"fullhash", p>>}
           /\ IF split
              THEN acc' = Reduce(acc, m) /\ part' = EmptyMap
              ELSE acc' = acc /\ part' = m
    /\ next' = next + 1
    /\ UNCHANGED <<disk, removed, args, unread, roots, pc, walk, paths, items, buf,
                   prehash_files, hashed_files, order, out, exit, tampered,
                   pool, total, results>>

\* the end of reduce; hashed_files is not changed after this, so every later
\* iteration over it visits the duplicate sets in one order
FinishPassThree ==
    /\ pc = "pass3"
    /\ next > Len(items)
    /\ hashed_files' = acc
    /\ order' \in Orders(DupKeys(acc))
    /\ acc' = EmptyMap
    /\ pc' = "paranoid"
    /\ UNCHANGED <<disk, removed, args, unread, roots, walk, paths, items, next, buf,
                   part, prehash_files, out, err, exit, faults, tampered,
                   pool, total, results>>

\* ------------------------------------------------------------ paranoid mode

RECURSIVE VerifyLengths(_, _, _)
\* VerifyRest without the byte comparison
VerifyLengths(first, others, bad) ==
    IF others = <<>> THEN "ok"
    ELSE LET other == Head(others)
         IN IF other \in bad THEN "io_error"
            ELSE IF RLen(disk[first]) # RLen(disk[other]) THEN "length_mismatch"
            ELSE VerifyLengths(first, Tail(others), bad)

RECURSIVE VerifyRest(_, _, _)
\* for other in &files[1..] { ... }
VerifyRest(first, others, bad) ==
    IF others = <<>> THEN "ok"
    ELSE LET other == Head(others)
         IN IF other \in bad THEN "io_error"
            ELSE IF RLen(disk[first]) # RLen(disk[other]) THEN "length_mismatch"
            ELSE IF disk[first] # disk[other] THEN "content_mismatch"
            ELSE VerifyRest(first, Tail(others), bad)

\* the closure of try_for_each; bad: the paths whose open, metadata or
\* read fails
VerifySet(files, bad) ==
    IF files[1] \in bad THEN "io_error" ELSE VerifyRest(files[1], Tail(files), bad)

\* the paths of the duplicate sets
Members(m) == UNION {{m[k][i] : i \in DOMAIN m[k]} : k \in DupKeys(m)}

\* if args.paranoid { eprintln!("paranoid mode: verifying file contents"); ..
ParanoidStart ==
    /\ pc = "paranoid"
    /\ \E paranoid \in BOOLEAN :
        /\ FlagIs("paranoid", paranoid)
        /\ args' = ReadFlag("paranoid", paranoid)
        /\ pc' = IF paranoid THEN "verify" ELSE "report"
    /\ unread' = unread \ {"paranoid"}
    /\ UNCHANGED <<disk, removed, roots, walk, paths, items, next, buf, part, acc,
                   prehash_files, hashed_files, order, out, err, exit, faults,
                   tampered,
                   pool, total, results>>

\* try_for_each over the duplicate sets: the first error any of them gives
\* is the error of main
Verify ==
    /\ pc = "verify"
    /\ \E bad \in SUBSET Members(hashed_files) :
        LET failures == {VerifySet(hashed_files[k], bad) : k \in DupKeys(hashed_files)}
                        \ {"ok"}
        IN /\ Cardinality(bad) <= MaxFaults - faults
           /\ faults' = faults + Cardinality(bad)
           /\ IF failures = {}
              THEN pc' = "report" /\ exit' = exit /\ err' = err \cup {<<"verified", 0>>}
              ELSE pc' = "failed" /\ exit' \in failures /\ err' = err
    /\ UNCHANGED <<disk, removed, args, unread, roots, walk, paths, items, next, buf,
                   part, acc, prehash_files, hashed_files, order, out, tampered,
                   pool, total, results>>

\* ------------------------------------------------------ summary and listing

RECURSIVE Sum(_, _)
\* .map(f).sum() over the entries of a map
Sum(f(_), S) == IF S = {} THEN 0 ELSE LET x == CHOOSE y \in S : TRUE
                                      IN f(x) + Sum(f, S \ {x})

\* the three lines of the summary
Summary ==
    LET count(k) == Len(paths[k])
        less1(k) == Len(hashed_files[k]) - 1
        bytes(k) == IF Len(hashed_files[k]) > 1
                    THEN RLen(disk[hashed_files[k][1]]) * (Len(hashed_files[k]) - 1)
                    ELSE 0
    IN << <<"dupes", Sum(less1, DOMAIN hashed_files),
            Cardinality(DupKeys(hashed_files)), Sum(bytes, DOMAIN hashed_files)>>,
          <<"checked", Sum(count, DOMAIN paths), Cardinality(DOMAIN paths)>>,
          <<"prehash", Cardinality(DOMAIN prehash_files)>> >>

\* files.sort()
Sorted(files) == SortSeq(files, LAMBDA a, b : a < b)

RECURSIVE Listing(_, _, _)
\* the lines printed for the duplicate sets, in iteration order
Listing(m, ord, omit_first) ==
    IF ord = <<>> THEN <<>>
    ELSE LET files == Sorted(m[Head(ord)])
             shown == IF omit_first THEN Tail(files) ELSE files
         IN [i \in 1..Len(shown) |-> <<"path", shown[i]>>]
            \o (IF omit_first THEN <<>> ELSE << <<"blank", 0>> >>)
            \o Listing(m, Tail(ord), omit_first)

Report ==
    /\ pc = "report"
    /\ \E summarize \in BOOLEAN, omit_first \in BOOLEAN,
          bad \in SUBSET {hashed_files[k][1] : k \in DupKeys(hashed_files)} :
        /\ FlagIs("summarize", summarize)
        /\ Cardinality(bad) <= MaxFaults - faults
        /\ faults' = faults + Cardinality(bad)
        /\ IF summarize
           THEN \* std::fs::metadata(files[0]) fails for the paths of bad
                /\ omit_first = FALSE
                /\ args' = ReadFlag("summarize", summarize)
                /\ unread' = unread \ {"summarize"}
                /\ hashed_files' = hashed_files
                /\ IF bad = {}
                   THEN pc' = "delete" /\ exit' = exit /\ out' = out \o Summary
                   ELSE pc' = "failed" /\ exit' = "io_error" /\ out' = out
           ELSE \* omit_first is read inside a set with files.len() > 1
                /\ bad = {}
                /\ IF order = <<>> THEN omit_first = FALSE
                   ELSE FlagIs("omit_first", omit_first)
                /\ args' = IF order = <<>> THEN ReadFlag("summarize", summarize)
                           ELSE [args EXCEPT !["summarize"] = summarize,
                                             !["omit_first"] = omit_first]
                /\ unread' = IF order = <<>> THEN unread \ {"summarize"}
                             ELSE unread \ {"summarize", "omit_first"}
                /\ hashed_files' = [k \in DOMAIN hashed_files |->
                                       IF Len(hashed_files[k]) > 1
                                       THEN Sorted(hashed_files[k])
                                       ELSE hashed_files[k]]
                /\ out' = out \o Listing(hashed_files, order, omit_first)
                /\ pc' = "delete"
                /\ exit' = exit
    /\ UNCHANGED <<disk, removed, roots, walk, paths, items, next, buf, part, acc,
                   prehash_files, order, err, tampered,
                   pool, total, results>>

\* ----------------------------------------------------------------- delete

RECURSIVE VictimsAll(_, _)
\* Victims with `files` in place of `&files[1..]`
VictimsAll(m, ord) ==
    IF ord = <<>> THEN <<>> ELSE m[Head(ord)] \o VictimsAll(m, Tail(ord))

RECURSIVE Victims(_, _)
\* for files in hashed_files.values() { if files.len() > 1 { for f in &files[1..] ..
Victims(m, ord) ==
    IF ord = <<>> THEN <<>> ELSE Tail(m[Head(ord)]) \o Victims(m, Tail(ord))

RECURSIVE RemoveAll(_, _, _, _)
\* std::fs::remove_file(f) for the victims from position i on; it fails for
\* the positions of fails, and for a path that is no longer there
RemoveAll(victims, i, fails, gone) ==
    IF i > Len(victims) THEN [removed |-> gone, failed |-> {}]
    ELSE LET f  == victims[i]
             ok == i \notin fails /\ f \notin gone
             r  == RemoveAll(victims, i + 1, fails, IF ok THEN gone \cup {f} ELSE gone)
         IN [removed |-> r.removed,
             failed  |-> IF ok THEN r.failed ELSE r.failed \cup {<<"remove", f>>}]

Delete ==
    /\ pc = "delete"
    /\ \E delete \in BOOLEAN :
        LET victims == IF delete THEN Victims(hashed_files, order) ELSE <<>>
        IN /\ FlagIs("delete", delete)
           /\ args' = ReadFlag("delete", delete)
           /\ unread' = unread \ {"delete"}
           /\ \E fails \in SUBSET (1..Len(victims)) :
                LET r == RemoveAll(victims, 1, fails, removed)
                IN /\ Cardinality(fails) <= MaxFaults - faults
                   /\ faults' = faults + Cardinality(fails)
                   /\ removed' = r.removed
                   /\ err' = err \cup r.failed
           /\ out' = out \o [i \in 1..Len(victims) |-> <<"deleting", victims[i]>>]
    /\ pc' = "done"
    /\ exit' = "ok"
    /\ UNCHANGED <<disk, roots, walk, paths, items, next, buf, part, acc,
                   prehash_files, hashed_files, order, tampered,
                   pool, total, results>>

\* ------------------------------------------------------------------ runs

Next ==
    \/ ScanFail
    \/ ScanDir
    \/ ScanFile
    \/ RetainGroups
    \/ PrehashFile
    \/ FinishPassTwo
    \/ FullHashFile
    \/ FinishPassThree
    \/ ParanoidStart
    \/ Verify
    \/ Report
    \/ Delete

Spec == Init /\ [][Next]_vars

\* Paranoid mode exists for a tree that changes under the run ("a file being
\* modified out from under us"): another process rewrites one file of a
\* duplicate set while the sets are being verified.
ExternalWrite ==
    /\ pc = "verify"
    /\ ~tampered
    /\ \E p \in Members(hashed_files) :
        \E c \in Contents \ {disk[p]} : disk' = [disk EXCEPT ![p] = c]
    /\ tampered' = TRUE
    /\ UNCHANGED <<removed, args, unread, roots, pc, walk, paths, items, next, buf,
                   part, acc, prehash_files, hashed_files, order, out, err, exit,
                   faults,
                   pool, total, results>>

NextTamper == Next \/ ExternalWrite

\* Verification does not depend on how the sets were found: these runs scan
\* one root.
InitTamper == Init /\ Len(roots) = 1

SpecTamper == InitTamper /\ [][NextTamper]_vars

\* ------------------------------------------------- fold and reduce alone

\* The collation of pass two and of pass three, for any stream of pairs and
\* any schedule: rayon hands each pair of the stream to fold with the map of
\* some job, a job starts from HashMap::new, and reduce merges any two of the
\* maps until one is left.  pool holds the maps of the jobs.

\* two values of blake3::hash(buf)
MergeKeys == {Hash(ZeroBuf), Hash(<< <<1, PREHASH_SIZE>> >>)}

PairStreams == SeqsUpTo([key : MergeKeys, path : Paths], MaxPairs)

InitMerge ==
    /\ disk = [p \in Paths |-> <<>>]
    /\ removed = {}
    /\ args = [n \in FlagNames |-> FALSE]
    /\ unread = FlagNames
    /\ roots = <<>>
    /\ pc = "merge"
    /\ walk = <<>>
    /\ paths = EmptyMap
    /\ items \in PairStreams
    /\ next = 1
    /\ buf = ZeroBuf
    /\ part = EmptyMap
    /\ acc = EmptyMap
    /\ prehash_files = EmptyMap
    /\ hashed_files = EmptyMap
    /\ order = <<>>
    /\ out = <<>>
    /\ err = {}
    /\ exit = "running"
    /\ faults = 0
    /\ tampered = FALSE
    /\ pool = <<>>
    /\ total = 0
    /\ results = <<>>

\* the identity of fold: HashMap::<blake3::Hash, Vec<&Path>>::new
NewWorker ==
    /\ pc = "merge"
    /\ Len(pool) < MaxWorkers
    /\ pool' = Append(pool, EmptyMap)
    /\ UNCHANGED <<disk, removed, args, unread, roots, pc, walk, paths, items, next,
                   buf, part, acc, prehash_files, hashed_files, order, out, err,
                   exit, faults, tampered, total, results>>

\* |mut map, (hash, path)| { map.entry(hash).or_default().push(path); map }
FoldInto ==
    /\ pc = "merge"
    /\ next <= Len(items)
    /\ \E w \in DOMAIN pool :
        pool' = [pool EXCEPT ![w] = Fold(pool[w], items[next].key, items[next].path)]
    /\ next' = next + 1
    /\ UNCHANGED <<disk, removed, args, unread, roots, pc, walk, paths, items,
                   buf, part, acc, prehash_files, hashed_files, order, out, err,
                   exit, faults, tampered, total, results>>

\* s without its j-th element
Without(s, j) == [i \in 1..(Len(s) - 1) |-> IF i < j THEN s[i] ELSE s[i + 1]]

\* .reduce(HashMap::new, |mut a, b| { ...; a }) on two of the maps
MergeMaps ==
    /\ pc = "merge"
    /\ \E i, j \in DOMAIN pool :
        /\ i # j
        /\ pool' = Without([pool EXCEPT ![i] = Reduce(pool[i], pool[j])], j)
    /\ UNCHANGED <<disk, removed, args, unread, roots, pc, walk, paths, items, next,
                   buf, part, acc, prehash_files, hashed_files, order, out, err,
                   exit, faults, tampered, total, results>>

NextMerge == NewWorker \/ FoldInto \/ MergeMaps

SpecMerge == InitMerge /\ [][NextMerge]_vars

\* ------------------------------------------------------ the read loop alone

\* The loop of pass two on one file, one call of f.read at a time.  The file
\* is disk[1], opened at position 0; buf is the buffer of the job, all zero
\* or still holding the bytes of the file hashed before.  results records
\* what each call of f.read returned: Ok(n), Err of kind Interrupted, or
\* another Err.  A read of a regular file returns 0 only at its end, and an
\* interrupted read transfers nothing.

StaleBufs == {ZeroBuf, << <<1, PREHASH_SIZE>> >>}

\* the sizes of the reads that return fewer bytes than they could
ShortSizes == {1, PREHASH_SIZE \div 2}

RECURSIVE Offset(_)
\* the position of f: the bytes the reads so far have returned
Offset(rs) == IF rs = <<>> THEN 0 ELSE rs[1].n + Offset(Tail(rs))

Times(rs, kind) == Cardinality({i \in DOMAIN rs : rs[i].kind = kind})

Shorts(rs) == Cardinality({i \in DOMAIN rs : rs[i].kind = "short"})

InitRead ==
    /\ \E c \in Contents : disk = [p \in Paths |-> c]
    /\ removed = {}
    /\ args = [n \in FlagNames |-> FALSE]
    /\ unread = FlagNames
    /\ roots = <<>>
    /\ pc = "read"
    /\ walk = <<>>
    /\ paths = EmptyMap
    /\ items = <<>>
    /\ next = 1
    /\ buf \in StaleBufs
    /\ part = EmptyMap
    /\ acc = EmptyMap
    /\ prehash_files = EmptyMap
    /\ hashed_files = EmptyMap
    /\ order = <<>>
    /\ out = <<>>
    /\ err = {}
    /\ exit = "running"
    /\ faults = 0
    /\ tampered = FALSE
    /\ pool = <<>>
    /\ total = 0
    /\ results = <<>>

\* the bytes a read can return now: what is left of the file, and no more
\* than the slice buf[total..] holds
Avail == Min2(RLen(disk[1]) - Offset(results), RLen(buf) - total)

\* Ok(n) => total += n
ReadSome ==
    /\ pc = "read"
    /\ total < RLen(buf)
    /\ Avail > 0
    /\ \E n \in ShortSizes \cup {Avail} :
        /\ n <= Avail
        /\ n < Avail => Shorts(results) < MaxShort
        /\ buf' = ReadInto(buf, total, disk[1], Offset(results), n)
        /\ total' = total + n
        /\ results' = Append(results,
                             [kind |-> IF n < Avail THEN "short" ELSE "full", n |-> n])
    /\ UNCHANGED <<disk, removed, args, unread, roots, pc, walk, paths, items, next,
                   part, acc, prehash_files, hashed_files, order, out, err, exit,
                   faults, tampered, pool>>

\* Ok(0) => break
ReadEnd ==
    /\ pc = "read"
    /\ total < RLen(buf)
    /\ Avail = 0
    /\ results' = Append(results, [kind |-> "end", n |-> 0])
    /\ pc' = "hash"
    /\ UNCHANGED <<disk, removed, args, unread, roots, walk, paths, items, next, buf,
                   part, acc, prehash_files, hashed_files, order, out, err, exit,
                   faults, tampered, pool, total>>

\* Err(e) if e.kind() == ErrorKind::Interrupted => continue
ReadInterrupted ==
    /\ pc = "read"
    /\ total < RLen(buf)
    /\ Times(results, "intr") < MaxIntr
    /\ results' = Append(results, [kind |-> "intr", n |-> 0])
    /\ UNCHANGED <<disk, removed, args, unread, roots, pc, walk, paths, items, next,
                   buf, part, acc, prehash_files, hashed_files, order, out, err,
                   exit, faults, tampered, pool, total>>

\* Err(e) => return Err(e), which filter_map prints
ReadError ==
    /\ pc = "read"
    /\ total < RLen(buf)
    /\ results' = Append(results, [kind |-> "err", n |-> 0])
    /\ err' = err \cup {<<"prehash", 1>>}
    /\ pc' = "read_failed"
    /\ UNCHANGED <<disk, removed, args, unread, roots, walk, paths, items, next, buf,
                   part, acc, prehash_files, hashed_files, order, out, exit,
                   faults, tampered, pool, total>>

\* while total < buf.len() is false: the buffer is full
BufferFull ==
    /\ pc = "read"
    /\ total >= RLen(buf)
    /\ pc' = "hash"
    /\ UNCHANGED <<disk, removed, args, unread, roots, walk, paths, items, next, buf,
                   part, acc, prehash_files, hashed_files, order, out, err, exit,
                   faults, tampered, pool, total, results>>

NextRead == ReadSome \/ ReadEnd \/ ReadInterrupted \/ ReadError \/ BufferFull

\* The thread that runs the closure keeps running, and every call of f.read
\* returns.
SpecRead == InitRead /\ [][NextRead]_vars /\ WF_vars(NextRead)

\* ------------------------------------------------------------ properties

Elems(files) == {files[i] : i \in DOMAIN files}

\* the final duplicate sets, as sets of paths
DupSets == {Elems(hashed_files[k]) : k \in DupKeys(hashed_files)}

\* pass three has finished
PassesDone == \/ pc \in {"paranoid", "verify", "report", "delete", "done"}
              \/ pc = "failed" /\ exit # "scan_failure"

\* paths that pass two or pass three reported and dropped
HashFailed == {e \in err : e[1] \in {"prehash", "fullhash"}}

RemoveFailed == {e \in err : e[1] = "remove"}

ScanErr == \E e \in err : e[1] = "scan"

\* the roots whose walk yields p
RootsHolding(p) == {r \in DOMAIN roots : p \in FilesUnder(roots[r])}

\* p is a scanned file: a root holds it and pass one admits it
Admitted(p) == RootsHolding(p) # {} /\ (RLen(disk[p]) > 0 \/ args.empty)

\* the listing printed p
Listed(p) == \E i \in DOMAIN out : out[i] = <<"path", p>>

\* C1: two files whose contents differ are never members of one final
\* duplicate set.
C1_NoFalsePositives ==
    \A S \in DupSets : \A p, q \in S : disk[p] = disk[q]

\* C2: when no file failed to hash, any two scanned files with identical
\* content are members of one final duplicate set, whatever the order of the
\* walk, the split into jobs and the results of the reads.
C2_Completeness ==
    (PassesDone /\ HashFailed = {}) =>
        \A p, q \in Paths :
            (p # q /\ Admitted(p) /\ Admitted(q) /\ disk[p] = disk[q]) =>
                \E S \in DupSets : {p, q} \subseteq S

C2_Witness ==
    /\ pc = "done"
    /\ HashFailed = {}
    /\ \E p, q \in Paths : /\ p # q
                           /\ disk[p] = disk[q]
                           /\ \E S \in DupSets : {p, q} \subseteq S

\* C3: after a run with --delete whose removals all succeed, every duplicate
\* set has exactly one member left on disk, its smallest path.
C3_DeletionInvariant ==
    (pc = "done" /\ args.delete /\ RemoveFailed = {}) =>
        \A S \in DupSets : S \ removed = {SetMin(S)}

\* no other scanned file has the size of p
SizeUnique(p) ==
    /\ Admitted(p)
    /\ \A q \in Paths \ {p} : Admitted(q) => RLen(disk[q]) # RLen(disk[p])

\* C4: a file whose size is unique among the scanned files is not listed, is
\* in no duplicate set (so it is not counted) and is not removed.
C4_UniqueSizeNeverReported ==
    \A p \in Paths :
        SizeUnique(p) => /\ ~Listed(p)
                         /\ p \notin UNION DupSets
                         /\ p \notin removed

\* p and q have the same first PREHASH_SIZE bytes
SameHead(p, q) ==
    /\ RLen(disk[p]) >= PREHASH_SIZE
    /\ RLen(disk[q]) >= PREHASH_SIZE
    /\ RTake(disk[p], PREHASH_SIZE) = RTake(disk[q], PREHASH_SIZE)

TailDiffers(p, q) ==
    \/ RLen(disk[p]) # RLen(disk[q])
    \/ RDrop(disk[p], PREHASH_SIZE) # RDrop(disk[q], PREHASH_SIZE)

\* C5: two files with the same first 4096 bytes and different lengths, or
\* different bytes after offset 4096, are in no final group together.
C5_KeyedTail ==
    \A k \in DOMAIN hashed_files :
        \A p, q \in Elems(hashed_files[k]) : SameHead(p, q) => ~TailDiffers(p, q)

\* a file of exactly 4096 bytes and a longer one with the same head went
\* through pass three together and came out in different groups
C5_Witness ==
    /\ pc = "done"
    /\ \E p, q \in Paths :
        /\ SameHead(p, q)
        /\ RLen(disk[p]) = PREHASH_SIZE
        /\ RLen(disk[q]) > PREHASH_SIZE
        /\ \E k \in DOMAIN prehash_files : {p, q} \subseteq Elems(prehash_files[k])
        /\ \E k \in DOMAIN hashed_files : p \in Elems(hashed_files[k])
        /\ \E k \in DOMAIN hashed_files : q \in Elems(hashed_files[k])

\* The grouping as a function of the tree, the roots and --empty alone.
\* Scans: the files the scan yields, one entry for each root that yields it.
Scans ==
    {s \in Paths \X DOMAIN roots :
        /\ s[1] \in FilesUnder(roots[s[2]])
        /\ (RLen(disk[s[1]]) > 0 \/ args.empty)}

Zeros(n) == IF n <= 0 THEN <<>> ELSE << <<0, n>> >>

\* the content of the 4096-byte buffer that is hashed for content c
Padded(c) == RCat(RTake(c, PREHASH_SIZE), Zeros(PREHASH_SIZE - RLen(c)))

\* what the two hashes of a file are computed from: the padded buffer, and
\* the bytes after offset 4096
KeyOf == [c \in Contents |-> <<Padded(c), RDrop(c, PREHASH_SIZE)>>]

SizeOf == [c \in Contents |-> RLen(c)]

\* s reaches pass two: another scanned file has its size
InPassTwo(s) ==
    \E t \in Scans : t # s /\ SizeOf[disk[t[1]]] = SizeOf[disk[s[1]]]

\* s and t reach pass two and get the same prehash and the same full hash
Twins(s, t) ==
    /\ t # s
    /\ KeyOf[disk[t[1]]] = KeyOf[disk[s[1]]]
    /\ InPassTwo(s)
    /\ InPassTwo(t)

ExpectedSets ==
    {{s[1]} \cup {t[1] : t \in {u \in Scans : Twins(s, u)}} :
        s \in {x \in Scans : \E t \in Scans : Twins(x, t)}}

\* C6: the set of duplicate sets of a run in which no file failed to hash is
\* a function of the tree, the roots and the flags; two runs over one
\* unchanged tree therefore end with the same sets, whatever order the walk,
\* the jobs, the reads and the HashMap took in each.
C6_Deterministic ==
    (PassesDone /\ HashFailed = {}) => DupSets = ExpectedSets

C6_Witness ==
    /\ pc = "done"
    /\ HashFailed = {}
    /\ Cardinality(DupSets) >= 2

\* the paths of the groups of a map
Grouped(m) == UNION {Elems(m[k]) : k \in DOMAIN m}

\* C7: a path that failed in pass two is in no prehash group and no final
\* group, a path that failed in pass three is in no final group; neither is
\* listed or removed, and the failure does not end the run.
C7_FailedPathStaysOut ==
    \A e \in HashFailed :
        /\ e[1] = "prehash" => e[2] \notin Grouped(prehash_files)
        /\ e[2] \notin Grouped(hashed_files)
        /\ ~Listed(e[2])
        /\ e[2] \notin removed
        /\ pc \in {"pass2", "pass3"} => exit = "running"

\* C8: a failure of the walk ends the run at once: nothing has been or will be
\* hashed, printed or removed.
C8_FatalScan ==
    ScanErr => /\ pc = "failed"
               /\ exit = "scan_failure"
               /\ items = <<>>
               /\ buf = ZeroBuf
               /\ prehash_files = EmptyMap
               /\ hashed_files = EmptyMap
               /\ HashFailed = {}
               /\ out = <<>>
               /\ removed = {}

\* the walk of the second root fails after files have been collected
C8_Witness ==
    /\ ScanErr
    /\ pc = "failed"
    /\ paths # EmptyMap
    /\ walk.r = 2

\* a member of a duplicate set differs from the first member of its set
Mismatch ==
    \E k \in DupKeys(hashed_files) :
        \E i \in DOMAIN hashed_files[k] :
            disk[hashed_files[k][i]] # disk[hashed_files[k][1]]

\* C9: with --paranoid a run gets past the verification only if no member
\* of a duplicate set differs from the first member of its set; a run that
\* the verification ends has printed nothing and removed nothing.
C9_ParanoidGates ==
    /\ (args.paranoid /\ pc \in {"report", "delete", "done"}) => ~Mismatch
    /\ (args.paranoid /\ pc = "failed") => (out = <<>> /\ removed = {})
    /\ exit \in {"length_mismatch", "content_mismatch"} => pc = "failed"

\* two files of one length differ in a byte, and the run ends
C9_Witness ==
    /\ pc = "failed"
    /\ exit = "content_mismatch"
    /\ out = <<>>

\* C10: a run fails only for a scan failure or a mismatch found by the
\* verification; every other failure of a file operation is absorbed.
C10_OnlyTwoFatalKinds ==
    pc = "failed" => exit \in {"scan_failure", "length_mismatch", "content_mismatch"}

\* the lines of the listing, without the lines of the deletion
ListLines == SelectSeq(out, LAMBDA l : l[1] \in {"path", "blank"})

RECURSIVE Ascending(_)
\* the paths of S in ascending lexicographic order
Ascending(S) ==
    IF S = {} THEN <<>> ELSE <<SetMin(S)>> \o Ascending(S \ {SetMin(S)})

\* the duplicate sets: the final groups with at least two members
RealSets == {S \in DupSets : Cardinality(S) >= 2}

RECURSIVE SetListing(_, _)
\* the listing of the sets of ord, in this order
SetListing(ord, omit_first) ==
    IF ord = <<>> THEN <<>>
    ELSE LET files == Ascending(Head(ord))
             shown == IF omit_first THEN Tail(files) ELSE files
         IN [i \in 1..Len(shown) |-> <<"path", shown[i]>>]
            \o (IF omit_first THEN <<>> ELSE << <<"blank", 0>> >>)
            \o SetListing(Tail(ord), omit_first)

\* C11: the listing prints, for each duplicate set in some order, its paths
\* in ascending order and a blank line, or with --omit-first its paths other
\* than the smallest and no blank line; it prints nothing else.
C11_Listing ==
    (pc \in {"delete", "done"} /\ ~args.summarize) =>
        \E ord \in Orders(RealSets) : ListLines = SetListing(ord, args.omit_first)

\* the summary printed its line of duplicate statistics
Summarized == pc \in {"delete", "done"} /\ args.summarize

\* the members of the group of key k all have the size of its first member
SameSize(k) ==
    \A i \in DOMAIN hashed_files[k] :
        RLen(disk[hashed_files[k][i]]) = RLen(disk[hashed_files[k][1]])

C13_CheckedFiles ==
    Summarized =>
        out[2] = <<"checked", Cardinality(Scans),
                   Cardinality({SizeOf[disk[s[1]]] : s \in Scans})>>

\* the number of removal attempts for p
Attempts(p) == Cardinality({i \in DOMAIN out : out[i] = <<"deleting", p>>})

\* C14: a run with --delete ends normally whatever removals fail, and it
\* attempts the removal of every member of a duplicate set other than its
\* representative, the smallest path, exactly once.
C14_IndependentDeletions ==
    (pc = "done" /\ args.delete) =>
        /\ exit = "ok"
        /\ \A S \in DupSets : \A p \in S \ {SetMin(S)} : Attempts(p) = 1

\* C17: a file with the content of every removed file is still on disk.
C17_LastCopySurvives ==
    \A p \in removed : \E q \in Paths \ removed : disk[q] = disk[p]

\* C18: the prehash is a function of the first min(length, 4096) bytes of
\* the file, and different bytes give different prehashes: two files that
\* pass two has hashed have the same prehash exactly if these bytes agree.
C18_PrehashOfBytesRead ==
    \A k1, k2 \in DOMAIN prehash_files :
        \A p \in Elems(prehash_files[k1]), q \in Elems(prehash_files[k2]) :
            (k1 = k2) <=> (RTake(disk[p], PREHASH_SIZE) = RTake(disk[q], PREHASH_SIZE))

\* no path is twice in the groups of m
NoRepeat(m) ==
    \A k1, k2 \in DOMAIN m :
        \A i \in DOMAIN m[k1], j \in DOMAIN m[k2] :
            m[k1][i] = m[k2][j] => (k1 = k2 /\ i = j)

\* C19: no path is twice in the size groups, in the prehash groups or in the
\* full-hash groups.
C19_PathUniqueness ==
    NoRepeat(paths) /\ NoRepeat(prehash_files) /\ NoRepeat(hashed_files)

\* C20: the members of a prehash group have one size, and the members of a
\* full-hash group are members of one prehash group with equal bytes after
\* offset 4096.
C20_StageRefinement ==
    /\ \A k \in DOMAIN prehash_files :
        \A p, q \in Elems(prehash_files[k]) : RLen(disk[p]) = RLen(disk[q])
    /\ \A k \in DOMAIN hashed_files :
        \A p, q \in Elems(hashed_files[k]) :
            /\ \E k2 \in DOMAIN prehash_files : {p, q} \subseteq Elems(prehash_files[k2])
            /\ RDrop(disk[p], PREHASH_SIZE) = RDrop(disk[q], PREHASH_SIZE)

\* the paths at the positions after the first of the groups with at least
\* two members
NonFirst ==
    UNION {{hashed_files[k][i] : i \in 2..Len(hashed_files[k])} :
              k \in DupKeys(hashed_files)}

\* the paths with a removal attempt
Attempted == {out[i][2] : i \in {j \in DOMAIN out : out[j][1] = "deleting"}}

\* C15: no step changes the content of a file; without --delete no step
\* removes a file or attempts to; with --delete the paths a step attempts
\* to remove, and those it removes, are non-first members of a final group
\* with at least two members.
C15_Frame ==
    [][/\ disk' = disk
       /\ ~args'.delete => (removed' = removed /\ Attempted' = {})
       /\ Attempted' \subseteq NonFirst'
       /\ (removed' \ removed) \subseteq Attempted']_vars

\* files were removed, and a scanned file outside every duplicate set is
\* there as it was
C15_Witness ==
    /\ pc = "done"
    /\ args.delete
    /\ removed # {}
    /\ \E p \in Paths : Admitted(p) /\ p \notin UNION DupSets /\ p \notin removed

\* C16: unless --empty is set, a zero-length file is in no size group, no
\* work list, no prehash group and no full-hash group, and it is not listed
\* and not removed.
C16_ZeroLength ==
    ~args.empty =>
        \A p \in Paths :
            RLen(disk[p]) = 0 =>
                /\ p \notin Grouped(paths)
                /\ \A i \in DOMAIN items : items[i].path # p
                /\ p \notin Grouped(part) \cup Grouped(acc)
                /\ p \notin Grouped(prehash_files) \cup Grouped(hashed_files)
                /\ ~Listed(p)
                /\ p \notin Attempted
                /\ p \notin removed

\* the scan met a zero-length file without --empty, and the run found
\* duplicates among the other files
C16_Witness ==
    /\ pc = "done"
    /\ "empty" \notin unread
    /\ ~args.empty
    /\ \E p \in Paths : RLen(disk[p]) = 0 /\ RootsHolding(p) # {}
    /\ DupSets # {}

\* The bytes pass three hands to the keyed hasher for the file at p.
Covered(p) ==
    IF RLen(disk[p]) <= PREHASH_SIZE THEN <<>> ELSE RDrop(disk[p], PREHASH_SIZE)

FullKeyed(m) ==
    \A k \in DOMAIN m :
        \A p \in Elems(m[k]) :
            \E h \in DOMAIN prehash_files :
                /\ p \in Elems(prehash_files[h])
                /\ k = KeyedHash(h, Covered(p))

\* C22: in pass three a file of at most 4096 bytes (4096 included) has the
\* keyed hash of the empty input under its prehash as its full hash, so no
\* byte of it enters the hash, and a longer file has the keyed hash of
\* exactly its bytes from offset 4096 to its end.
C22_SmallFiles ==
    /\ pc = "pass3" => FullKeyed(part) /\ FullKeyed(acc)
    /\ FullKeyed(hashed_files)

\* a file of exactly 4096 bytes, a longer one and a shorter one went through
\* pass three
C22_Witness ==
    /\ pc = "done"
    /\ \E p, q, r \in Grouped(hashed_files) :
        /\ RLen(disk[p]) = PREHASH_SIZE
        /\ RLen(disk[q]) > PREHASH_SIZE
        /\ RLen(disk[r]) \in 1 .. PREHASH_SIZE - 1
        /\ \E h \in DOMAIN prehash_files :
            /\ KeyedHash(h, <<>>) \in DOMAIN hashed_files
            /\ p \in Elems(hashed_files[KeyedHash(h, <<>>)])

\* how often path p stands in the group of key k of map m
CountIn(m, k, p) ==
    IF k \in DOMAIN m THEN Cardinality({j \in DOMAIN m[k] : m[k][j] = p}) ELSE 0

\* the same keys and the same multiset of paths for each key
SameBags(a, b) ==
    /\ DOMAIN a = DOMAIN b
    /\ \A k \in DOMAIN a : \A p \in Paths : CountIn(a, k, p) = CountIn(b, k, p)

\* how often the pair (k, p) stands in the maps of the jobs, and in the part
\* of the stream that has been folded
InPool(k, p) ==
    Cardinality({x \in (DOMAIN pool) \X (1..MaxPairs) :
                    /\ k \in DOMAIN pool[x[1]]
                    /\ x[2] <= Len(pool[x[1]][k])
                    /\ pool[x[1]][k][x[2]] = p})

InStream(k, p) ==
    Cardinality({i \in 1..(next - 1) : items[i] = [key |-> k, path |-> p]})

\* C21: however the pairs are dealt to the jobs and in whatever order the
\* maps are merged, the maps together hold every folded pair exactly as often
\* as the stream does, under its own key, and no key without a path; the
\* merge is associative, and commutative up to the order of paths in a group.
C21_MergeLaws ==
    pc = "merge" =>
        /\ \A k \in MergeKeys : \A p \in Paths : InPool(k, p) = InStream(k, p)
        /\ \A w \in DOMAIN pool :
            /\ DOMAIN pool[w] \subseteq MergeKeys
            /\ \A k \in DOMAIN pool[w] : pool[w][k] # <<>>
        /\ \A a, b \in Elems(pool) : SameBags(Reduce(a, b), Reduce(b, a))
        /\ \A a, b, c \in Elems(pool) :
            Reduce(Reduce(a, b), c) = Reduce(a, Reduce(b, c))

\* the whole stream has been folded by more than one job and merged into one
\* map: a group holds two paths in the reverse of their order in the stream
C21_Witness ==
    /\ pc = "merge"
    /\ Len(items) = MaxPairs
    /\ next > Len(items)
    /\ Len(pool) = 1
    /\ \E k \in DOMAIN pool[1] :
        /\ Len(pool[1][k]) >= 2
        /\ \E i, j \in DOMAIN items :
            /\ i < j
            /\ items[i].key = k
            /\ items[j].key = k
            /\ items[i].path # items[j].path
            /\ pool[1][k] = <<items[j].path, items[i].path>>

\* what holds of the read loop at every moment
ReadLoopSafe ==
    pc \in {"read", "hash", "read_failed"} =>
        /\ RLen(buf) = PREHASH_SIZE
        /\ total <= PREHASH_SIZE
        /\ total = Offset(results)
        /\ RTake(buf, total) = RTake(disk[1], total)
        /\ RDrop(buf, total) \in {RDrop(b, total) : b \in StaleBufs}
        /\ pc = "hash" => total = Min2(RLen(disk[1]), PREHASH_SIZE)
        /\ pc = "read_failed" <=> Times(results, "err") > 0
        /\ Times(results, "err") > 0 => <<"prehash", 1>> \in err

\* C23: whatever short reads and Interrupted errors occur, the read loop of
\* pass two ends; it ends with total = min(file length, 4096) unless a read
\* failed with another error, which it returns; the buffer stays 4096 bytes
\* long and nothing is written beyond total; the first total bytes of the
\* buffer are the first total bytes of the file, an Interrupted error
\* changing neither.
C23_ReadLoop == []ReadLoopSafe /\ <>(pc \in {"hash", "read_failed"})

\* the loop has filled the buffer from a file longer than it, in spite of
\* short reads and an Interrupted error after the first bytes
C23_Witness ==
    /\ pc = "hash"
    /\ RLen(disk[1]) > PREHASH_SIZE
    /\ total = PREHASH_SIZE
    /\ Shorts(results) = MaxShort
    /\ \E i \in DOMAIN results :
        /\ results[i].kind = "intr"
        /\ \E j \in 1..(i - 1) : results[j].n > 0
        /\ \E j \in (i + 1)..Len(results) : results[j].n > 0

====
